---- MODULE Spec2Model ----
(***************************************************************************)
(* Model of fcm/firebase_messaging.py: the FirebaseMessaging client        *)
(* (sendPlainText, sendNotification, sendData, makeRequest, createPayLoad, *)
(* handleJSONResponse, groupResponseResult) and the Payload classes.       *)
(* One send call is followed through its steps; the provider's answer is   *)
(* a nondeterministic input of makeRequest.                                *)
(***************************************************************************)
EXTENDS Integers, Sequences, FiniteSets, TLC

\* ---------------------------------------------------------------- bounds
MaxIds == 2          \* longest short registration_ids list tried
MaxResults == 2      \* longest `results` list the provider answers with

\* ------------------------------------------------------ program constant
MaxRegIds == 1000    \* validate_registration_ids: len(registration_ids) > 1000

\* ------------------------------------------------------- Python values
PyNone == [t |-> "NoneType"]
PyStr(s) == [t |-> "str", v |-> s]
PyList(l) == [t |-> "list", v |-> l]
PyDict(f) == [t |-> "dict", v |-> f]
PyItems(p) == [t |-> "items", v |-> p]
PyBytes(b) == [t |-> "bytes", v |-> b]

\* bool(x) for the value kinds that occur
Truthy(x) ==
  CASE x.t = "NoneType" -> FALSE
    [] x.t = "str" -> x.v # ""
    [] x.t = "list" -> x.v # <<>>
    [] x.t = "dict" -> DOMAIN x.v # {}
    [] x.t = "items" -> x.v # <<>>
    [] OTHER -> TRUE

\* kwargs.get(key, None)
Get(kwargs, key) == IF key \in DOMAIN kwargs THEN kwargs[key] ELSE PyNone

Ret(v) == [ok |-> TRUE, val |-> v]
\* an exception instance: its class and its args tuple (the constructor arguments)
Raise(cls, msg) == [ok |-> FALSE, exc |-> [cls |-> cls, args |-> <<PyStr(msg)>>]]

Min(a, b) == IF a < b THEN a ELSE b

\* ------------------------------------------------------------- inputs
Ids == {"R1", "R2"}
SeqsUpTo(S, n) == UNION {[1..k -> S] : k \in 0..n}
Opt(S) == {<<>>} \cup {<<x>> : x \in S}

ToVals == {PyStr(""), PyStr("R1")}
ShortLists == SeqsUpTo(Ids, MaxIds)
LongLists == {[i \in 1..n |-> "R1"] : n \in {MaxRegIds, MaxRegIds + 1}}
RegIdVals == {PyList(l) : l \in ShortLists \cup LongLists}
DataVals == {PyDict([k \in {"k"} |-> PyStr("v")])}

MkKwargs(toO, regO, dataO) ==
  [k \in (IF toO # <<>> THEN {"to"} ELSE {})
         \cup (IF regO # <<>> THEN {"registration_ids"} ELSE {})
         \cup (IF dataO # <<>> THEN {"data"} ELSE {})
     |-> CASE k = "to" -> toO[1]
           [] k = "registration_ids" -> regO[1]
           [] k = "data" -> dataO[1]]

KwargsSet ==
  {MkKwargs(toO, regO, dataO) :
     toO \in Opt(ToVals), regO \in Opt(RegIdVals), dataO \in Opt(DataVals)}

Ops == {"sendPlainText", "sendNotification", "sendData"}

\* one entry of the provider's `results`: a dict with any of the three keys
ResultKeys == {"error", "registration_id", "message_id"}
KeyVals(k) ==
  CASE k = "error" -> {"NotRegistered", "Unavailable"}
    [] k = "registration_id" -> {"canon"}
    [] k = "message_id" -> {"0:abc"}
Entries ==
  UNION {{e \in [S -> {"NotRegistered", "Unavailable", "canon", "0:abc"}] :
            \A k \in S : e[k] \in KeyVals(k)} : S \in SUBSET ResultKeys}

\* response bodies: not JSON at all, JSON without `results`, JSON with `results`
Bodies ==
  {[json |-> FALSE, doc |-> <<>>]}
    \cup {[json |-> TRUE, doc |-> [k \in {"multicast_id"} |-> <<>>]]}
    \cup {[json |-> TRUE, doc |-> [k \in {"results"} |-> r]] :
            r \in SeqsUpTo(Entries, MaxResults)}
ErrorBodies == {[json |-> FALSE, doc |-> <<>>],
                [json |-> TRUE, doc |-> [k \in {"results"} |-> <<>>]]}
Statuses == {200, 400, 401, 503, 500, 404}
Responses ==
  {[status_code |-> 200, body |-> b] : b \in Bodies}
    \cup {[status_code |-> s, body |-> b] : s \in Statuses \ {200}, b \in ErrorBodies}

\* ------------------------------------------------------ Payload classes
TooManyMsg == "Exceded number of reigstration ids. Only 1000 per request allowed"

\* mutant: the limit test off by one (a list of exactly 1000 is rejected)
validate_registration_ids_OffByOne(registration_ids) ==
  IF Len(registration_ids.v) >= MaxRegIds
    THEN Raise("FCMTooManyRegIdsException", TooManyMsg)
    ELSE Ret(PyNone)

\* Payload.validate_registration_ids
validate_registration_ids(registration_ids) ==
  IF Len(registration_ids.v) > MaxRegIds
    THEN Raise("FCMTooManyRegIdsException", TooManyMsg)
    ELSE Ret(PyNone)

\* Payload.__init__ / Payload.validate: only registration_ids has a validator
Payload_init(kwargs) ==
  IF "registration_ids" \in DOMAIN kwargs
    THEN LET r == validate_registration_ids(kwargs["registration_ids"])
         IN IF r.ok THEN Ret(kwargs) ELSE r
    ELSE Ret(kwargs)

\* JsonPayload.body: json.dumps of the whole field set
JsonPayload_body(dict) == Ret([fmt |-> "json", text |-> dict])

\* PlainTextPayload.body
PlainTextPayload_body(dict) ==
  LET d1 == IF "registration_ids" \notin DOMAIN dict
              THEN [k \in DOMAIN dict \cup {"registration_ids"} |->
                      IF k = "registration_ids" THEN PyNone ELSE dict[k]]
              ELSE dict
  IN IF "data" \notin DOMAIN d1
       THEN Raise("KeyError", "data")
       ELSE LET data == d1["data"].v
                rest == DOMAIN d1 \ {"data"}
                flat == {"data." \o k : k \in DOMAIN data}
            IN Ret([fmt |-> "form",
                    text |-> [f \in rest \cup flat |->
                               IF f \in flat
                                 THEN data[CHOOSE k \in DOMAIN data : f = "data." \o k]
                                 ELSE d1[f]]])

\* ------------------------------------------------------------ Transport
Msg400 == "Error 400: The request could not be parsed as JSON, or it contained invalid fields."
Msg401 == "Error 401: There was an error authenticating the sender account."
Msg503 == "The Firebsase Messaging server is temporarily unavailable"
MsgInternal == "There was an internal error in the FCM connection server while trying to process the request"

\* response.json(): the decoded document, ValueError when the body is not JSON
response_json(response) ==
  IF response.body.json THEN Ret(PyDict(response.body.doc))
                        ELSE Raise("ValueError", "No JSON object could be decoded")

\* response.content: the raw body
response_content(response) == Ret(PyBytes(response.body))

\* mutant: the 401 branch looks at is_json before choosing the exception
makeRequest_FlagDependent(payload, is_json, response) ==
  [posts |-> 1,
   out |-> CASE response.status_code = 200 ->
                  IF is_json THEN response_json(response) ELSE response_content(response)
             [] response.status_code = 400 -> Raise("FCMMalformedJsonException", Msg400)
             [] response.status_code = 401 ->
                  IF is_json THEN Raise("FCMAuthenticationException", Msg401)
                             ELSE Raise("FCMInternalException", MsgInternal)
             [] response.status_code = 503 -> Raise("FCMInternalException", Msg503)
             [] OTHER -> Raise("FCMInternalException", MsgInternal)]

\* mutant: a 503 answer is retried once before giving up
makeRequest_Retry503(payload, is_json, response) ==
  [posts |-> IF response.status_code = 503 THEN 2 ELSE 1,
   out |-> CASE response.status_code = 200 ->
                  IF is_json THEN response_json(response) ELSE response_content(response)
             [] response.status_code = 400 -> Raise("FCMMalformedJsonException", Msg400)
             [] response.status_code = 401 -> Raise("FCMAuthenticationException", Msg401)
             [] response.status_code = 503 -> Raise("FCMInternalException", Msg503)
             [] OTHER -> Raise("FCMInternalException", MsgInternal)]

\* FirebaseMessaging.makeRequest, given the provider's answer to its POST;
\* posts is the number of requests.post calls it makes
makeRequest(payload, is_json, response) ==
  [posts |-> 1,
   out |-> CASE response.status_code = 200 ->
                  IF is_json THEN response_json(response) ELSE response_content(response)
             [] response.status_code = 400 -> Raise("FCMMalformedJsonException", Msg400)
             [] response.status_code = 401 -> Raise("FCMAuthenticationException", Msg401)
             [] response.status_code = 503 -> Raise("FCMInternalException", Msg503)
             [] OTHER -> Raise("FCMInternalException", MsgInternal)]

\* ----------------------------------------------------------- Reconciler
\* dict(filtered): the last pair with a given key wins
DictOf(filtered) ==
  [k \in {filtered[i][1] : i \in DOMAIN filtered} |->
     filtered[CHOOSE i \in DOMAIN filtered :
                /\ filtered[i][1] = k
                /\ \A j \in DOMAIN filtered : filtered[j][1] = k => j <= i][2]]

\* defaultdict(list) filled by grouping[v].append(k), then .items():
\* (reason, ids) pairs in insertion order
RECURSIVE GroupItems(_, _)
GroupItems(filtered, acc) ==
  IF filtered = <<>> THEN acc
  ELSE LET k == Head(filtered)[1]
           v == Head(filtered)[2]
           acc2 == IF \E j \in DOMAIN acc : acc[j][1] = v
                     THEN [j \in DOMAIN acc |->
                             IF acc[j][1] = v THEN <<v, Append(acc[j][2], k)>> ELSE acc[j]]
                     ELSE Append(acc, <<v, <<k>>>>)
       IN GroupItems(Tail(filtered), acc2)

\* FirebaseMessaging.groupResponseResult
groupResponseResult(response, reg_ids, key) ==
  IF "results" \notin DOMAIN response.v THEN Raise("KeyError", "results")
  ELSE IF reg_ids.t = "NoneType" THEN Raise("TypeError", "zip argument #1 must support iteration")
  ELSE
    LET results == response.v["results"]
        n == Min(Len(reg_ids.v), Len(results))
        mapping == [i \in 1..n |-> <<reg_ids.v[i], results[i]>>]
        has == SelectSeq(mapping, LAMBDA p : key \in DOMAIN p[2])
        filtered == [i \in 1..Len(has) |-> <<has[i][1], has[i][2][key]>>]
        grouping == IF key \in {"registration_id", "message_id"}
                      THEN PyDict(DictOf(filtered))
                      ELSE PyItems(GroupItems(filtered, <<>>))
    IN Ret(IF Truthy(grouping) THEN grouping ELSE PyNone)

\* mutant: `to` is never used as the recipient sequence
RecipientsOf_IgnoreTo(kwargs) == Get(kwargs, "registration_ids")

\* the recipient sequence handleJSONResponse reconciles against
RecipientsOf(kwargs) ==
  LET reg_ids == Get(kwargs, "registration_ids")
      to == Get(kwargs, "to")
  IN IF Truthy(to) /\ ~Truthy(reg_ids) THEN PyList(<<to.v>>) ELSE reg_ids

\* mutant: the three groups are put in the result without the `if` tests
handleJSONResponse_AlwaysKeys(response, kwargs) ==
  LET reg_ids == RecipientsOf(kwargs)
      errors == groupResponseResult(response, reg_ids, "error")
      canonical == groupResponseResult(response, reg_ids, "registration_id")
      success == groupResponseResult(response, reg_ids, "message_id")
  IN IF ~errors.ok THEN errors
     ELSE IF ~canonical.ok THEN canonical
     ELSE IF ~success.ok THEN success
     ELSE Ret(PyDict([k \in {"errors", "canonical", "success"} |->
                        CASE k = "errors" -> errors.val
                          [] k = "canonical" -> canonical.val
                          [] k = "success" -> success.val]))

\* FirebaseMessaging.handleJSONResponse
handleJSONResponse(response, kwargs) ==
  LET reg_ids == RecipientsOf(kwargs)
      errors == groupResponseResult(response, reg_ids, "error")
      canonical == groupResponseResult(response, reg_ids, "registration_id")
      success == groupResponseResult(response, reg_ids, "message_id")
  IN IF ~errors.ok THEN errors
     ELSE IF ~canonical.ok THEN canonical
     ELSE IF ~success.ok THEN success
     ELSE LET keys == (IF Truthy(errors.val) THEN {"errors"} ELSE {})
                        \cup (IF Truthy(canonical.val) THEN {"canonical"} ELSE {})
                        \cup (IF Truthy(success.val) THEN {"success"} ELSE {})
          IN Ret(PyDict([k \in keys |->
                           CASE k = "errors" -> errors.val
                             [] k = "canonical" -> canonical.val
                             [] k = "success" -> success.val]))

\* --------------------------------------------------------------- Facade
\* is_json as the three operations pass it to createPayLoad and makeRequest
IsJson(o) == o # "sendPlainText"

\* FirebaseMessaging.createPayLoad, second half: payloadObj.body
createPayLoad(is_json, dict) ==
  IF is_json THEN JsonPayload_body(dict) ELSE PlainTextPayload_body(dict)

\* what sendPlainText hands back after makeRequest returned `content`
sendPlainText(content) == PyNone

\* what sendData (and sendNotification through it) hands back
sendData(reconciled) == reconciled

\* ----------------------------------------------------------------- state
VARIABLES pc, op, kwargs, payload, response, decoded, result, outcome, posts, steps
vars == <<pc, op, kwargs, payload, response, decoded, result, outcome, posts, steps>>

NoResponse == [status_code |-> 0, body |-> [json |-> FALSE, doc |-> <<>>]]
Pending == [kind |-> "pending"]
Returned(v) == [kind |-> "return", val |-> v]
Raised(e) == [kind |-> "raise", exc |-> e]

Init ==
  /\ pc = "idle"
  /\ op = "sendData"
  /\ kwargs = <<>>
  /\ payload = PyNone
  /\ response = NoResponse
  /\ decoded = PyNone
  /\ result = PyNone
  /\ outcome = Pending
  /\ posts = 0
  /\ steps = <<>>

\* the caller invokes one of the three send operations
Call(o, kw) ==
  /\ pc = "idle"
  /\ pc' = "validate"
  /\ op' = o
  /\ kwargs' = kw
  /\ payload' = PyNone
  /\ response' = NoResponse
  /\ decoded' = PyNone
  /\ result' = PyNone
  /\ outcome' = Pending
  /\ posts' = 0
  /\ steps' = <<>>

\* createPayLoad: constructing the Payload object runs validate
Validate ==
  /\ pc = "validate"
  /\ steps' = Append(steps, "validate")
  /\ LET r == Payload_init(kwargs)
     IN IF r.ok
          THEN /\ pc' = "build"
               /\ outcome' = outcome
          ELSE /\ pc' = "done"
               /\ outcome' = Raised(r.exc)
  /\ UNCHANGED <<op, kwargs, payload, response, decoded, result, posts>>

\* createPayLoad: payloadObj.body
Build ==
  /\ pc = "build"
  /\ steps' = Append(steps, "build")
  /\ LET r == createPayLoad(IsJson(op), kwargs)
     IN IF r.ok
          THEN /\ pc' = "transport"
               /\ payload' = r.val
               /\ outcome' = outcome
          ELSE /\ pc' = "done"
               /\ payload' = payload
               /\ outcome' = Raised(r.exc)
  /\ UNCHANGED <<op, kwargs, response, decoded, result, posts>>

\* makeRequest: the POST, answered by the provider with resp
MakeRequest(resp) ==
  /\ pc = "transport"
  /\ steps' = Append(steps, "transport")
  /\ response' = resp
  /\ LET r == makeRequest(payload, IsJson(op), resp)
     IN /\ posts' = posts + r.posts
        /\ IF r.out.ok
             THEN /\ decoded' = r.out.val
                  /\ pc' = IF IsJson(op) THEN "reconcile" ELSE "return"
                  /\ outcome' = outcome
             ELSE /\ decoded' = decoded
                  /\ pc' = "done"
                  /\ outcome' = Raised(r.out.exc)
  /\ UNCHANGED <<op, kwargs, payload, result>>

\* sendData: handleJSONResponse(response, **kwargs)
Reconcile ==
  /\ pc = "reconcile"
  /\ steps' = Append(steps, "reconcile")
  /\ LET r == handleJSONResponse(decoded, kwargs)
     IN IF r.ok
          THEN /\ result' = r.val
               /\ pc' = "return"
               /\ outcome' = outcome
          ELSE /\ result' = result
               /\ pc' = "done"
               /\ outcome' = Raised(r.exc)
  /\ UNCHANGED <<op, kwargs, payload, response, decoded, posts>>

\* sendData / sendNotification return the reconciled result
ReturnData ==
  /\ pc = "return"
  /\ IsJson(op)
  /\ steps' = Append(steps, "return")
  /\ outcome' = Returned(sendData(result))
  /\ pc' = "done"
  /\ UNCHANGED <<op, kwargs, payload, response, decoded, result, posts>>

\* sendPlainText falls off its end after makeRequest
ReturnPlainText ==
  /\ pc = "return"
  /\ ~IsJson(op)
  /\ steps' = Append(steps, "return")
  /\ outcome' = Returned(sendPlainText(decoded))
  /\ pc' = "done"
  /\ UNCHANGED <<op, kwargs, payload, response, decoded, result, posts>>

Next ==
  \/ \E o \in Ops, kw \in KwargsSet : Call(o, kw)
  \/ Validate
  \/ Build
  \/ \E resp \in Responses : MakeRequest(resp)
  \/ Reconcile
  \/ ReturnData
  \/ ReturnPlainText

Spec == Init /\ [][Next]_vars

TypeOK ==
  /\ pc \in {"idle", "validate", "build", "transport", "reconcile", "return", "done"}
  /\ op \in Ops
  /\ posts \in 0..2
  /\ outcome.kind \in {"pending", "return", "raise"}

\* ------------------------------------------------- vocabulary of the claims
Finished == pc = "done"
RaisedCls(c) == outcome.kind = "raise" /\ outcome.exc.cls = c
Built == "fmt" \in DOMAIN payload
Answered == response.status_code # 0
\* a finished sendData/sendNotification call that returned a value
ReturnedJson == Finished /\ IsJson(op) /\ outcome.kind = "return"
\* the `results` list of the answer and the index range zip pairs with rec
ResultsOf == response.body.doc["results"]
PairedIdx(rec) == 1..Min(Len(rec), Len(ResultsOf))
WithKey(rec, key) == {i \in PairedIdx(rec) : key \in DOMAIN ResultsOf[i]}
LastWith(rec, key, r) ==
  CHOOSE i \in WithKey(rec, key) :
    rec[i] = r /\ \A j \in WithKey(rec, key) : rec[j] = r => j <= i

\* C1: a registration_ids list longer than 1000 ends the call with
\* FCMTooManyRegIdsException before any POST; a list of at most 1000 never
\* raises it, and the payload gets built (given `data` for the plain-text form).
C1_RecipientLimit ==
  (pc # "idle" /\ "registration_ids" \in DOMAIN kwargs) =>
    LET n == Len(kwargs["registration_ids"].v)
    IN /\ n > MaxRegIds =>
            /\ posts = 0
            /\ ~Built
            /\ "transport" \notin {steps[i] : i \in DOMAIN steps}
            /\ "validate" \in {steps[i] : i \in DOMAIN steps} =>
                 Finished /\ RaisedCls("FCMTooManyRegIdsException")
       /\ n <= MaxRegIds =>
            /\ ~RaisedCls("FCMTooManyRegIdsException")
            /\ ("build" \in {steps[i] : i \in DOMAIN steps}
                  /\ (IsJson(op) \/ "data" \in DOMAIN kwargs)) => Built

C1_Witness ==
  /\ Finished
  /\ "registration_ids" \in DOMAIN kwargs
  /\ Len(kwargs["registration_ids"].v) = MaxRegIds + 1
  /\ RaisedCls("FCMTooManyRegIdsException")
  /\ posts = 0

\* C2: when sendPlainText's POST is answered with 200, sendPlainText returns
\* the raw response body that makeRequest produced.
C2_PlainTextReturnsBody ==
  (Finished /\ op = "sendPlainText" /\ response.status_code = 200) =>
    /\ outcome.kind = "return"
    /\ outcome.val.t = "bytes"
    /\ outcome.val.v = response.body
    /\ outcome.val = decoded

\* C3: the failure raised by makeRequest is a function of the status code alone:
\* 400 is FCMMalformedJsonException, 401 is FCMAuthenticationException, 503 is
\* the "temporarily unavailable" FCMInternalException, whatever the body and
\* whatever is_json; none of them returns a value.
MalformedRequest == [cls |-> "FCMMalformedJsonException", args |-> <<PyStr(Msg400)>>]
AuthenticationFailed == [cls |-> "FCMAuthenticationException", args |-> <<PyStr(Msg401)>>]
ProviderUnavailable == [cls |-> "FCMInternalException", args |-> <<PyStr(Msg503)>>]
C3_FailureByStatusOnly ==
  /\ response.status_code = 400 => Finished /\ outcome = Raised(MalformedRequest)
  /\ response.status_code = 401 => Finished /\ outcome = Raised(AuthenticationFailed)
  /\ response.status_code = 503 => Finished /\ outcome = Raised(ProviderUnavailable)

C3_Witness ==
  /\ response.status_code = 401
  /\ response.body.json
  /\ op = "sendPlainText"
  /\ outcome = Raised(AuthenticationFailed)

\* C4: a status outside {200, 400, 401, 503} raises FCMInternalException and
\* the exception carries the numeric status code of the response.
C4_InternalErrorCarriesStatus ==
  (Answered /\ response.status_code \notin {200, 400, 401, 503}) =>
    /\ Finished
    /\ RaisedCls("FCMInternalException")
    /\ \E i \in DOMAIN outcome.exc.args :
         /\ outcome.exc.args[i].t = "int"
         /\ outcome.exc.args[i].v = response.status_code

\* C5: recipient i is paired with results[i] up to the shorter length; success
\* and canonical map exactly the paired recipients whose entry has message_id /
\* registration_id to that value, and errors is a mapping from each reason to
\* the recipients with that reason, in request order.
C5_ErrorIds(rec, reason) ==
  LET idx == {i \in WithKey(rec, "error") : ResultsOf[i]["error"] = reason}
      pick == SelectSeq([i \in 1..Len(rec) |-> i], LAMBDA i : i \in idx)
  IN [j \in 1..Len(pick) |-> rec[pick[j]]]
C5_Reconciliation ==
  ReturnedJson =>
    LET rec == RecipientsOf(kwargs).v
        d == outcome.val.v
        succ == {rec[i] : i \in WithKey(rec, "message_id")}
        canon == {rec[i] : i \in WithKey(rec, "registration_id")}
        reasons == {ResultsOf[i]["error"] : i \in WithKey(rec, "error")}
    IN /\ ("success" \in DOMAIN d) = (succ # {})
       /\ "success" \in DOMAIN d =>
            /\ d["success"].t = "dict"
            /\ DOMAIN d["success"].v = succ
            /\ \A r \in succ :
                 d["success"].v[r] = ResultsOf[LastWith(rec, "message_id", r)]["message_id"]
       /\ ("canonical" \in DOMAIN d) = (canon # {})
       /\ "canonical" \in DOMAIN d =>
            /\ d["canonical"].t = "dict"
            /\ DOMAIN d["canonical"].v = canon
            /\ \A r \in canon :
                 d["canonical"].v[r] =
                   ResultsOf[LastWith(rec, "registration_id", r)]["registration_id"]
       /\ ("errors" \in DOMAIN d) = (reasons # {})
       /\ "errors" \in DOMAIN d =>
            /\ d["errors"].t = "dict"
            /\ DOMAIN d["errors"].v = reasons
            /\ \A e \in reasons : d["errors"].v[e] = C5_ErrorIds(rec, e)

\* C6: in a returned ReconciledResult each of errors / canonical / success is
\* present exactly when some paired entry carries error / registration_id /
\* message_id; a present key holds at least one entry and every error reason
\* listed has at least one recipient.
C6_KeysPresentIffNonEmpty ==
  ReturnedJson =>
    LET rec == RecipientsOf(kwargs).v
        d == outcome.val.v
    IN /\ ("errors" \in DOMAIN d) = (WithKey(rec, "error") # {})
       /\ ("canonical" \in DOMAIN d) = (WithKey(rec, "registration_id") # {})
       /\ ("success" \in DOMAIN d) = (WithKey(rec, "message_id") # {})
       /\ \A k \in DOMAIN d :
            /\ d[k].t \in {"dict", "items"}
            /\ d[k].t = "dict" => DOMAIN d[k].v # {}
            /\ d[k].t = "items" =>
                 /\ d[k].v # <<>>
                 /\ \A j \in DOMAIN d[k].v : Len(d[k].v[j][2]) > 0

C6_Witness ==
  /\ ReturnedJson
  /\ DOMAIN outcome.val.v = {"errors"}
  /\ Len(ResultsOf) = 2
  /\ Len(outcome.val.v["errors"].v) = 2

\* C7: reconciliation runs against registration_ids when that is given and
\* non-empty, and otherwise against [to] when a (non-empty) `to` is given;
\* sendData(to="R1", data={"k":"v"}) answered with
\* {"results":[{"message_id":"0:abc"}]} returns {"success": {"R1": "0:abc"}}.
C7_Recipients(kw) ==
  IF "registration_ids" \in DOMAIN kw /\ kw["registration_ids"].v # <<>>
    THEN kw["registration_ids"].v
    ELSE <<kw["to"].v>>
C7_Covered(kw) ==
  \/ "registration_ids" \in DOMAIN kw /\ kw["registration_ids"].v # <<>>
  \/ "to" \in DOMAIN kw /\ kw["to"].v # ""
C7_ErrorIdSet(d) ==
  IF "errors" \in DOMAIN d
    THEN UNION {{d["errors"].v[j][2][m] : m \in DOMAIN d["errors"].v[j][2]} :
                  j \in DOMAIN d["errors"].v}
    ELSE {}
C7_Scenario ==
  /\ op = "sendData"
  /\ kwargs = MkKwargs(<<PyStr("R1")>>, <<>>, <<PyDict([k \in {"k"} |-> PyStr("v")])>>)
  /\ response = [status_code |-> 200,
                 body |-> [json |-> TRUE,
                           doc |-> [k \in {"results"} |->
                                      <<[m \in {"message_id"} |-> "0:abc"]>>]]]
  /\ Finished
C7_RecipientSource ==
  /\ (ReturnedJson /\ C7_Covered(kwargs)) =>
       LET rec == C7_Recipients(kwargs)
           d == outcome.val.v
       IN /\ (IF "success" \in DOMAIN d THEN DOMAIN d["success"].v ELSE {})
               = {rec[i] : i \in WithKey(rec, "message_id")}
          /\ (IF "canonical" \in DOMAIN d THEN DOMAIN d["canonical"].v ELSE {})
               = {rec[i] : i \in WithKey(rec, "registration_id")}
          /\ C7_ErrorIdSet(d) = {rec[i] : i \in WithKey(rec, "error")}
  /\ C7_Scenario =>
       outcome = Returned(PyDict([k \in {"success"} |->
                                    PyDict([r \in {"R1"} |-> "0:abc"])]))

C7_Witness ==
  /\ C7_Scenario
  /\ outcome.kind = "return"

\* C8: the steps of a call run in the order validate, build, transport,
\* reconcile, return; a call POSTs at most once, exactly once when validation
\* and building succeeded; after a non-200 answer the call is over with the
\* error raised, one POST made and no reconciliation.
Rank(step) ==
  CASE step = "validate" -> 1
    [] step = "build" -> 2
    [] step = "transport" -> 3
    [] step = "reconcile" -> 4
    [] step = "return" -> 5
C8_SinglePipeline ==
  /\ \A i, j \in DOMAIN steps : i < j => Rank(steps[i]) < Rank(steps[j])
  /\ \A i \in DOMAIN steps : i > 1 => Rank(steps[i - 1]) >= Rank(steps[i]) - 2
  /\ (steps # <<>>) => steps[1] = "validate"
  /\ posts <= 1
  /\ posts = Cardinality({i \in DOMAIN steps : steps[i] = "transport"})
  /\ (Finished /\ Built) => posts = 1
  /\ (Finished /\ outcome.kind = "return") =>
       /\ steps[Len(steps)] = "return"
       /\ IsJson(op) => steps = <<"validate", "build", "transport", "reconcile", "return">>
  /\ (Answered /\ response.status_code # 200) =>
       /\ Finished
       /\ posts = 1
       /\ outcome.kind = "raise"
       /\ steps = <<"validate", "build", "transport">>

C8_Witness ==
  /\ Finished
  /\ response.status_code = 503
  /\ posts = 1
  /\ outcome.kind = "raise"

\* C9: the plain-text body carries each entry k of `data` as "data.<k>", has no
\* `data` key, carries every other supplied field unchanged, and has no
\* registration_ids key when the caller supplied none.
C9_PlainTextBody ==
  (op = "sendPlainText" /\ Built) =>
    LET body == payload.text
        data == kwargs["data"].v
    IN /\ \A k \in DOMAIN data :
            ("data." \o k) \in DOMAIN body /\ body["data." \o k] = data[k]
       /\ "data" \notin DOMAIN body
       /\ \A f \in DOMAIN kwargs \ {"data"} : f \in DOMAIN body /\ body[f] = kwargs[f]
       /\ "registration_ids" \notin DOMAIN kwargs => "registration_ids" \notin DOMAIN body

\* C10: a sendData/sendNotification call that passed validation and was
\* answered with 200 and a JSON body holding a `results` list returns a
\* ReconciledResult, whatever the presence of `to` and registration_ids.
C10_ReconcileNeverFails ==
  (Finished /\ IsJson(op) /\ response.status_code = 200
     /\ response.body.json /\ "results" \in DOMAIN response.body.doc) =>
    outcome.kind = "return"
====
